---- MODULE Spec2Model ----
(***************************************************************************)
(* A model of src/src/App.tsx (3D Prime Spirals Visualizer): the prime     *)
(* sieve, the scene builder of Canvas3D (project / projected) and the      *)
(* interaction controller of Canvas3D and App (pointer, wheel, buttons,    *)
(* reset, the requestAnimationFrame clock).                                *)
(*                                                                         *)
(* Numbers.  JavaScript numbers are modelled as fixed-point integers:      *)
(*   zoom              in units of 1/ZoomScale                             *)
(*   rotation.x/.y     in units of 1/RotScale radian                       *)
(*   clientX/clientY   in units of 1/PxScale pixel                         *)
(*   distances         in units of 1/DistScale pixel                       *)
(* Products and quotients are rounded down to the unit, where a double     *)
(* rounds to 53 bits.                                                      *)
(*                                                                         *)
(* React.  A handler runs to completion and the re-render it causes (with  *)
(* the effects whose dependencies changed) is part of the same step, so    *)
(* the props and state a handler closes over are the current ones.         *)
(***************************************************************************)
EXTENDS Integers, Sequences, FiniteSets, TLC

VARIABLES
    rotation,       \* App state rotation {x, y}                  (line 295)
    zoom,           \* App state zoom                             (line 296)
    isAnimating,    \* App state isAnimating                      (line 278)
    animationSpeed, \* App state animationSpeed, in tenths        (line 292)
    resetKey,       \* App state resetKey = Canvas3D resetSignal  (line 280)
    isDragging,     \* Canvas3D state isDragging                  (line 102)
    lastPos,        \* Canvas3D ref lastPos                       (line 103)
    pointers,       \* Canvas3D ref pointers: Map id -> {x, y}    (line 104)
    pinch,          \* Canvas3D ref pinch                         (line 107)
    raf,            \* the rAF effect closure's raf               (line 114)
    frames,         \* frame callbacks requested and not yet run or cancelled
    mounted,        \* whether Canvas3D is mounted
    nEvents,        \* number of events handled so far (bounds the model)
    pending,        \* setRotation updaters queued by handlers and not yet applied
                    \* by a render (used by the batching specification)
    deltaSum,       \* history: the sum of the rotation deltas of the events
                    \* handled so far (used by the batching specification)
    mode,           \* App state mode                             (line 276)
    params,         \* App state stepAngle, radius, pitch, a, b, c, blockSize,
                    \* layerRadius                                (lines 283-290)
    N,              \* App state N                                (line 277)
    sieved,         \* the array sievePrimes(N) returned          (line 304)
    points,         \* Canvas3D prop points                       (line 80)
    primes,         \* Canvas3D prop primes                       (line 81)
    dotSize,        \* Canvas3D prop dotSize                      (line 82)
    width,          \* Canvas3D prop width                        (line 86)
    height,         \* Canvas3D prop height                       (line 87)
    showAllNumbers, \* Canvas3D prop showAllNumbers               (line 92)
    perspective     \* Canvas3D prop perspective                  (line 94)

camVars   == <<rotation, zoom>>
appVars   == <<isAnimating, animationSpeed, resetKey>>
gestVars  == <<isDragging, lastPos, pointers, pinch>>
rafVars   == <<raf, frames, mounted>>
batchVars == <<pending, deltaSum>>
genVars   == <<mode, params>>
sieveVars == <<N, sieved>>
sceneVars == <<points, primes, dotSize, width, height, showAllNumbers, perspective>>
vars == <<rotation, zoom, isAnimating, animationSpeed, resetKey, isDragging,
          lastPos, pointers, pinch, raf, frames, mounted, nEvents, pending,
          deltaSum, mode, params,
          N, sieved, points, primes, dotSize, width, height, showAllNumbers, perspective>>

(***************************************************************************)
(* Bounds of the model.                                                    *)
(***************************************************************************)
MaxEvents == 5
MaxLimit == 110
MaxPoints == 3
MaxN == 12
MaxBatch == 3

(***************************************************************************)
(* Fixed-point units.                                                      *)
(***************************************************************************)
ZoomScale == 10000
RotScale == 100000
PxScale == 2
DistScale == 100

Max(a, b) == IF a >= b THEN a ELSE b
Min(a, b) == IF a <= b THEN a ELSE b
Abs(a) == IF a < 0 THEN 0 - a ELSE a

\* Math.floor(Math.sqrt(n)) for an integer n >= 0, by bisection.
RECURSIVE SqrtSearch(_, _, _)
SqrtSearch(n, lo, hi) ==
    IF lo >= hi THEN lo
    ELSE LET mid == (lo + hi + 1) \div 2
         IN  IF mid * mid <= n THEN SqrtSearch(n, mid, hi)
                               ELSE SqrtSearch(n, lo, mid - 1)
FloorSqrt(n) == SqrtSearch(n, 0, Min(n, 46340))

\* Math.hypot(dx, dy): dx, dy in 1/PxScale px, the result in 1/DistScale px.
Hypot(dx, dy) ==
    FloorSqrt((dx * dx + dy * dy) * (DistScale \div PxScale) * (DistScale \div PxScale))

(***************************************************************************)
(* Coordinates and trigonometry.  Point coordinates and depths are in      *)
(* units of 1/CoordScale, cosines and sines in units of 1/TrigScale, the   *)
(* perspective scale and the dot radius in units of 1/PerspScale.          *)
(***************************************************************************)
CoordScale == 1000
TrigScale == 10000
PerspScale == 1000

\* pi and 2 pi in units of 1/RotScale radian.
Pi == 314159
TwoPi == 628319

\* The sum t - t x2/(a(a+1)) + t x2^2/(a(a+1)(a+2)(a+3)) - ... of k more terms,
\* x2 the squared angle in units of 1/TrigScale: the Taylor series of the cosine
\* (t = 1, a = 1) and of the sine (t = the angle, a = 2).
RECURSIVE Series(_, _, _, _)
Series(t, x2, a, k) ==
    IF k = 0 THEN 0
    ELSE t - Series((t * x2) \div (TrigScale * a * (a + 1)), x2, a + 2, k - 1)

\* The angle a (1/RotScale radian) brought into (-pi, pi].
WrapAngle(a) ==
    LET m == a % TwoPi
    IN  IF m > Pi THEN m - TwoPi ELSE m

\* The angle in units of 1/TrigScale radian.
ToTrigUnit(a) == (a * TrigScale) \div RotScale

\* Math.cos and Math.sin of an angle within [0, pi/2], by the series.
CosSeries(a) ==
    LET x == ToTrigUnit(a)
    IN  Series(TrigScale, (x * x) \div TrigScale, 1, 7)
SinSeries(a) ==
    LET x == ToTrigUnit(a)
    IN  Series(x, (x * x) \div TrigScale, 2, 7)

\* Math.cos(a): cos(-a) = cos(a), cos(a) = -cos(pi - a).
Cos(a) ==
    LET w == Abs(WrapAngle(a))
    IN  IF 2 * w <= Pi THEN CosSeries(w) ELSE 0 - CosSeries(Pi - w)

\* Math.sin(a): sin(-a) = -sin(a), sin(a) = sin(pi - a).
Sin(a) ==
    LET w == WrapAngle(a)
        u == Abs(w)
        v == IF 2 * u <= Pi THEN SinSeries(u) ELSE SinSeries(Pi - u)
    IN  IF w < 0 THEN 0 - v ELSE v

(***************************************************************************)
(* Inputs of the interaction controller.                                   *)
(***************************************************************************)
\* pointerId of the pointer events.
PointerIds == {1, 2, 3}

\* clientX/clientY of the pointer events, in 1/PxScale px: (0, 20) px,
\* (0.5, 20) px, half a pixel beside it, and (10, 0) px, which is (10, -20) px
\* away from the first.
Positions == {[x |-> 0, y |-> 40], [x |-> 1, y |-> 40], [x |-> 20, y |-> 0]}

\* deltaY of the wheel events.
WheelDeltas == {0 - 4000, 100, 4000}

\* Values of the animation speed slider, in tenths (0.1 .. 3, line 441).
Speeds == {10, 30}

\* t - last of a frame callback, in ms.
Elapsed == {16, 50}

(***************************************************************************)
(* Program constants.                                                      *)
(***************************************************************************)
ZoomMin == ZoomScale \div 10              \* 0.1     (lines 158, 171, 522)
ZoomMax == 5 * ZoomScale                  \* 5       (lines 158, 171, 521)
ZOOM_STEP == (15 * ZoomScale) \div 100    \* 0.15    (line 340)
ROT_STEP == (12 * RotScale) \div 100      \* 0.12    (line 339)
WheelK(ctrlKey) ==                        \* 0.0025 or 0.001 (line 170)
    IF ctrlKey THEN (25 * ZoomScale) \div 10000 ELSE (10 * ZoomScale) \div 10000
DragK == RotScale \div (100 * PxScale)    \* 0.01 per px (line 152)
TickKX == RotScale \div 10000             \* 0.001 * speed * dt, speed in tenths (line 121)
TickKY == RotScale \div 20000             \* 0.0005 * speed * dt (line 122)
MaxDt == 32                               \* Math.min(32, t - last) (line 117)

\* The values of mode (line 276).
Modes == {"helix", "spherical", "conical", "layered"}

\* The initial values of the parameters (lines 283-290).
DefaultParams ==
    [stepAngle |-> (35 * RotScale) \div 100, radius |-> CoordScale,
     pitch |-> (8 * CoordScale) \div 100, a |-> (8 * CoordScale) \div 10,
     b |-> (4 * CoordScale) \div 100, c |-> (3 * CoordScale) \div 100,
     blockSize |-> 200, layerRadius |-> 6 * CoordScale]

\* Math.max(0.1, Math.min(5, v))
ClampZoom(v) == Max(ZoomMin, Min(ZoomMax, v))

NoPinch == [set |-> FALSE, startDist |-> 0, startZoom |-> 0]
Origin == [x |-> 0, y |-> 0]

\* pointers.current.size
Size(m) == Cardinality(DOMAIN m)

\* pointers.current.set(id, pos)
MapSet(m, id, pos) == [i \in (DOMAIN m) \cup {id} |-> IF i = id THEN pos ELSE m[i]]

\* pointers.current.delete(id)
MapDelete(m, id) == [i \in (DOMAIN m) \ {id} |-> m[i]]

\* const [a, b] = [...pointers.current.values()]; Math.hypot(a.x - b.x, a.y - b.y)
\* for a map of two entries.
PairDist(m) ==
    LET i == CHOOSE i \in DOMAIN m : TRUE
        j == CHOOSE j \in DOMAIN m : j # i
    IN  Hypot(m[i].x - m[j].x, m[i].y - m[j].y)

(***************************************************************************)
(* The requestAnimationFrame clock.  A frame is a callback the browser     *)
(* holds: its handle and the isAnimating and animationSpeed its closure    *)
(* captured.  Handles are reused once free: only their identity matters.   *)
(***************************************************************************)
Handles(fr) == {f.h : f \in fr}

FreshHandle(fr, cur) ==
    CHOOSE h \in 1..(Cardinality(fr) + 2) :
        /\ h \notin Handles(fr) \cup {cur}
        /\ \A k \in 1..(h - 1) : k \in Handles(fr) \cup {cur}

cancelAnimationFrame(fr, h) == {f \in fr : f.h # h}

requestAnimationFrame(fr, h, anim, speed) ==
    fr \cup {[h |-> h, isAnimating |-> anim, animationSpeed |-> speed]}

\* The cleanup of the rAF effect: () => cancelAnimationFrame(raf).
RafCleanup(fr, cur) == cancelAnimationFrame(fr, cur)

\* The rAF effect re-run after isAnimating or animationSpeed changed: the old
\* closure's cleanup, then the new closure's first request.
RafEffect(anim, speed) ==
    LET kept == RafCleanup(frames, raf)
        h == FreshHandle(kept, raf)
    IN  /\ frames' = requestAnimationFrame(kept, h, anim, speed)
        /\ raf' = h

Handled == /\ nEvents < MaxEvents
           /\ nEvents' = nEvents + 1

Others == UNCHANGED <<batchVars, genVars, sieveVars, sceneVars>>

(***************************************************************************)
(* Canvas3D pointer and wheel handlers.                                    *)
(***************************************************************************)
\* The pinch baseline onPointerDown records when the map reaches two entries.
PinchStart(m, z) == [set |-> TRUE, startDist |-> PairDist(m), startZoom |-> z]

\* The pointerId of a new contact.  The browser sends pointerdown for a pointer
\* that is not down already; the handlers treat all ids alike, so the new
\* contact is given the smallest id not in use.
NewPointerId(id) ==
    /\ id \notin DOMAIN pointers
    /\ \A k \in PointerIds : k < id => k \in DOMAIN pointers

onPointerDown(id, pos) ==
    /\ mounted
    /\ Handled
    /\ NewPointerId(id)
    /\ LET m == MapSet(pointers, id, pos)
       IN  /\ pointers' = m
           /\ IF Size(m) = 1
              THEN /\ isDragging' = TRUE
                   /\ lastPos' = pos
                   /\ pinch' = pinch
              ELSE IF Size(m) = 2
              THEN /\ pinch' = PinchStart(m, zoom)
                   /\ UNCHANGED <<isDragging, lastPos>>
              ELSE UNCHANGED <<isDragging, lastPos, pinch>>
    /\ UNCHANGED <<camVars, appVars, rafVars>>
    /\ Others

\* DragBranch without its test of the map's size.
DragBranchAnySize(m) == isDragging

\* Whether onPointerMove takes its drag branch, given the map after the set.
DragBranch(m) == Size(m) = 1 /\ isDragging

\* Whether onPointerMove takes its pinch branch.
PinchBranch(m) == Size(m) = 2 /\ pinch.set

\* PinchZoom with the start zoom left out of the product.
PinchZoomFromOne(p, dist) == ClampZoom((ZoomScale * dist) \div Max(DistScale, p.startDist))

\* pinch.startZoom * (dist / Math.max(1, pinch.startDist)), clamped.
PinchZoom(p, dist) == ClampZoom((p.startZoom * dist) \div Max(DistScale, p.startDist))

onPointerMove(id, pos) ==
    /\ mounted
    /\ Handled
    /\ IF id \notin DOMAIN pointers
       THEN UNCHANGED <<camVars, gestVars>>
       ELSE LET m == MapSet(pointers, id, pos)
            IN  /\ pointers' = m
                /\ IF DragBranch(m)
                   THEN /\ lastPos' = pos
                        /\ rotation' = [x |-> rotation.x + (pos.y - lastPos.y) * DragK,
                                        y |-> rotation.y + (pos.x - lastPos.x) * DragK]
                        /\ UNCHANGED <<zoom, isDragging, pinch>>
                   ELSE IF PinchBranch(m)
                   THEN /\ zoom' = PinchZoom(pinch, PairDist(m))
                        /\ UNCHANGED <<rotation, isDragging, lastPos, pinch>>
                   ELSE UNCHANGED <<camVars, isDragging, lastPos, pinch>>
    /\ UNCHANGED <<appVars, rafVars>>
    /\ Others

\* PinchAfterUp without the clearing.
PinchKeptAfterUp(m) == pinch

\* The pinch baseline after a pointerup or pointercancel left the map m.
PinchAfterUp(m) == IF Size(m) < 2 THEN NoPinch ELSE pinch

\* onPointerUp, also the pointercancel handler (line 225).
onPointerUp(id) ==
    /\ mounted
    /\ Handled
    /\ LET m == MapDelete(pointers, id)
       IN  /\ pointers' = m
           /\ pinch' = PinchAfterUp(m)
           /\ isDragging' = IF Size(m) = 0 THEN FALSE ELSE isDragging
    /\ UNCHANGED <<camVars, lastPos, appVars, rafVars>>
    /\ Others

WheelZoom(z, deltaY, ctrlKey) == ClampZoom(z + (0 - deltaY) * WheelK(ctrlKey))

onWheel(deltaY, ctrlKey) ==
    /\ mounted
    /\ Handled
    /\ zoom' = WheelZoom(zoom, deltaY, ctrlKey)
    /\ UNCHANGED <<rotation, gestVars, appVars, rafVars>>
    /\ Others

(***************************************************************************)
(* App buttons and sliders.                                                *)
(***************************************************************************)
\* ZoomInValue without its Math.min(5, ...).
ZoomInUnclamped(z) == z + ZOOM_STEP

ZoomInValue(z) == Min(ZoomMax, z + ZOOM_STEP)
ZoomOutValue(z) == Max(ZoomMin, z - ZOOM_STEP)

ZoomIn ==
    /\ mounted
    /\ Handled
    /\ zoom' = ZoomInValue(zoom)
    /\ UNCHANGED <<rotation, gestVars, appVars, rafVars>>
    /\ Others

ZoomOut ==
    /\ mounted
    /\ Handled
    /\ zoom' = ZoomOutValue(zoom)
    /\ UNCHANGED <<rotation, gestVars, appVars, rafVars>>
    /\ Others

\* The four rotate buttons: Left, Right (y -+ ROT_STEP), Up, Down (x -+ ROT_STEP).
Rotate(dx, dy) ==
    /\ mounted
    /\ Handled
    /\ rotation' = [x |-> rotation.x + dx, y |-> rotation.y + dy]
    /\ UNCHANGED <<zoom, gestVars, appVars, rafVars>>
    /\ Others

RotateLeft == Rotate(0, 0 - ROT_STEP)
RotateRight == Rotate(0, ROT_STEP)
RotateUp == Rotate(0 - ROT_STEP, 0)
RotateDown == Rotate(ROT_STEP, 0)

\* What the reset leaves of the gesture state: the reset button and the reset
\* effect write rotation and zoom only.
ResetGesture ==
    UNCHANGED gestVars

\* The reset button, with the Canvas3D reset effect its resetKey change runs and
\* the rAF effect re-run when isAnimating changed.
ResetView ==
    /\ mounted
    /\ Handled
    /\ isAnimating' = FALSE
    /\ resetKey' = resetKey + 1
    /\ rotation' = Origin
    /\ zoom' = ZoomScale
    /\ ResetGesture
    /\ IF isAnimating
       THEN RafEffect(FALSE, animationSpeed)
       ELSE UNCHANGED <<raf, frames>>
    /\ UNCHANGED <<animationSpeed, mounted>>
    /\ Others

\* The Animate / Pause button.
ToggleAnimating ==
    /\ mounted
    /\ Handled
    /\ isAnimating' = ~isAnimating
    /\ RafEffect(~isAnimating, animationSpeed)
    /\ UNCHANGED <<camVars, gestVars, animationSpeed, resetKey, mounted>>
    /\ Others

\* The animation speed slider, moved to another value.
SetAnimationSpeed(s) ==
    /\ mounted
    /\ Handled
    /\ s # animationSpeed
    /\ animationSpeed' = s
    /\ RafEffect(isAnimating, s)
    /\ UNCHANGED <<camVars, gestVars, isAnimating, resetKey, mounted>>
    /\ Others

(***************************************************************************)
(* The frame callback and the unmount.                                     *)
(***************************************************************************)
\* Dt without the cap.
DtUncapped(elapsed) == elapsed

\* Math.min(32, t - last)
Dt(elapsed) == Min(MaxDt, elapsed)

\* The rotation a tick of the closure f leaves.
TickRotation(f, r, dt) ==
    IF f.isAnimating
    THEN [x |-> r.x + TickKX * f.animationSpeed * dt,
          y |-> r.y + TickKY * f.animationSpeed * dt]
    ELSE r

\* The frames pending after the callback f ran with the fresh handle h.
TickFrames(f, h) ==
    requestAnimationFrame(frames \ {f}, h, f.isAnimating, f.animationSpeed)

\* The browser runs the pending frame callback f, elapsed ms after its closure's
\* previous tick.  The closure's raf is the effect's current one when f is the
\* callback that raf names.
tick(f, elapsed) ==
    /\ f \in frames
    /\ Handled
    /\ rotation' = TickRotation(f, rotation, Dt(elapsed))
    /\ LET h == FreshHandle(frames \ {f}, raf)
       IN  /\ frames' = TickFrames(f, h)
           /\ raf' = IF f.h = raf THEN h ELSE raf
    /\ UNCHANGED <<zoom, gestVars, appVars, mounted>>
    /\ Others

\* Canvas3D is torn down: the rAF effect's cleanup runs.
Unmount ==
    /\ mounted
    /\ Handled
    /\ mounted' = FALSE
    /\ frames' = RafCleanup(frames, raf)
    /\ UNCHANGED <<camVars, gestVars, appVars, raf>>
    /\ Others

(***************************************************************************)
(* The interaction controller.                                             *)
(***************************************************************************)
\* The scene the controller's specification holds fixed.
FixedScene ==
    /\ mode = "helix"
    /\ params = DefaultParams
    /\ N = 0
    /\ sieved = <<>>
    /\ points = <<>>
    /\ primes = {}
    /\ dotSize = 3
    /\ width = 800
    /\ height = 600
    /\ showAllNumbers = FALSE
    /\ perspective = TRUE

Init ==
    /\ rotation = Origin
    /\ zoom = ZoomScale
    /\ isAnimating = FALSE
    /\ animationSpeed = 10
    /\ resetKey = 0
    /\ isDragging = FALSE
    /\ lastPos = Origin
    /\ pointers = <<>>
    /\ pinch = NoPinch
    /\ raf = 1
    /\ frames = {[h |-> 1, isAnimating |-> FALSE, animationSpeed |-> 10]}
    /\ mounted = TRUE
    /\ nEvents = 0
    /\ pending = <<>>
    /\ deltaSum = Origin
    /\ FixedScene

Next ==
    \/ \E id \in PointerIds, pos \in Positions : onPointerDown(id, pos)
    \/ \E id \in PointerIds, pos \in Positions : onPointerMove(id, pos)
    \/ \E id \in PointerIds : onPointerUp(id)
    \/ \E deltaY \in WheelDeltas, ctrlKey \in BOOLEAN : onWheel(deltaY, ctrlKey)
    \/ ZoomIn
    \/ ZoomOut
    \/ RotateLeft
    \/ RotateRight
    \/ RotateUp
    \/ RotateDown
    \/ ResetView
    \/ ToggleAnimating
    \/ \E s \in Speeds : SetAnimationSpeed(s)
    \/ \E f \in frames, elapsed \in Elapsed : tick(f, elapsed)
    \/ Unmount

Spec == Init /\ [][Next]_vars

(***************************************************************************)
(* The prime sieve.                                                        *)
(***************************************************************************)
\* new Array(limit + 1).fill(true); sieve[0] = sieve[1] = false
SieveStart(limit) == [i \in 0..limit |-> i >= 2]

\* InnerStart with the inner loop begun one multiple late, at p * p + p.
InnerStartLate(p) == p * p + p

\* The first index the inner loop clears for p.
InnerStart(p) == p * p

\* for (let i = p * p; i <= limit; i += p) sieve[i] = false
ClearMultiples(sieve, p) ==
    [i \in DOMAIN sieve |->
        IF i >= InnerStart(p) /\ (i - InnerStart(p)) % p = 0 THEN FALSE ELSE sieve[i]]

\* for (let p = 2; p <= upper; p++) if (sieve[p]) ...
RECURSIVE SieveLoop(_, _, _)
SieveLoop(sieve, p, upper) ==
    IF p > upper THEN sieve
    ELSE SieveLoop(IF sieve[p] THEN ClearMultiples(sieve, p) ELSE sieve, p + 1, upper)

\* arr.filter(n => n > 0) of an array held as a sequence.
IsPositive(n) == n > 0
FilterPositive(arr) == SelectSeq(arr, IsPositive)

\* sieve.map((isPrime, i) => (isPrime ? i : -1)): element k of the sequence is
\* the array's element k - 1.
MapToIndex(sieve, limit) == [k \in 1..(limit + 1) |-> IF sieve[k - 1] THEN k - 1 ELSE 0 - 1]

sievePrimes(limit) ==
    IF limit < 2 THEN <<>>
    ELSE LET upper == FloorSqrt(limit)
             sieve == SieveLoop(SieveStart(limit), 2, upper)
         IN  FilterPositive(MapToIndex(sieve, limit))

\* new Set(arr)
ToSet(arr) == {arr[k] : k \in DOMAIN arr}

(***************************************************************************)
(* The geometry generators.  stepAngle is in units of 1/RotScale radian,   *)
(* radius, a and layerRadius in units of 1/CoordScale, pitch, b and c in   *)
(* units of 1/CoordScale per radian.                                       *)
(***************************************************************************)
\* LoopContinues with the test n < N.
LoopContinuesShort(n, len) == n < len

\* The loop test of the four generators: n <= N.
LoopContinues(n, len) == n <= len

\* The loop of the four generators, for (let n = ...; n <= N; n++)
\* points.push(body(n)): the points pushed from n on, body[n] being the point
\* the loop body makes for n.  The iterations are evaluated in blocks of
\* LoopBlock, which keeps the evaluation shallow and changes nothing else.
LoopBlock == 8

RECURSIVE PushBlock(_, _, _, _)
PushBlock(body, n, stop, len) ==
    IF n < stop /\ LoopContinues(n, len)
    THEN <<body[n]>> \o PushBlock(body, n + 1, stop, len)
    ELSE <<>>

RECURSIVE PushLoop(_, _, _)
PushLoop(body, n, len) ==
    IF LoopContinues(n, len)
    THEN PushBlock(body, n, n + LoopBlock, len) \o PushLoop(body, n + LoopBlock, len)
    ELSE <<>>

\* The point coordsHelix pushes for n.
HelixPoint(n, stepAngle, radius, pitch) ==
    LET t == n * stepAngle
    IN  [n |-> n,
         x |-> (radius * Cos(t)) \div TrigScale,
         y |-> (radius * Sin(t)) \div TrigScale,
         z |-> (pitch * t) \div RotScale]

coordsHelix(len, stepAngle, radius, pitch) ==
    PushLoop([n \in Nat |-> HelixPoint(n, stepAngle, radius, pitch)], 1, len)

\* The point coordsSphericalSpiral pushes for n.
SphericalPoint(n, len, stepAngle) ==
    LET z == (2 * CoordScale * (n - 1)) \div Max(len - 1, 1) - CoordScale
        r == FloorSqrt(Max(0, CoordScale * CoordScale - z * z))
        theta == n * stepAngle
    IN  [n |-> n,
         x |-> (r * Cos(theta)) \div TrigScale,
         y |-> (r * Sin(theta)) \div TrigScale,
         z |-> z]

coordsSphericalSpiral(len, stepAngle) ==
    PushLoop([n \in Nat |-> SphericalPoint(n, len, stepAngle)], 1, len)

\* The point coordsConicalArchimedean pushes for n.
ConicalPoint(n, stepAngle, a, b, c) ==
    LET t == n * stepAngle
        r == a + (b * t) \div RotScale
    IN  [n |-> n,
         x |-> (r * Cos(t)) \div TrigScale,
         y |-> (r * Sin(t)) \div TrigScale,
         z |-> (c * t) \div RotScale]

coordsConicalArchimedean(len, stepAngle, a, b, c) ==
    PushLoop([n \in Nat |-> ConicalPoint(n, stepAngle, a, b, c)], 1, len)

\* The point coordsLayeredTime pushes for n, safe being Math.max(blockSize, 1).
LayeredPoint(n, safe, layerRadius, stepAngle) ==
    LET layer == (n - 1) \div safe
        idxInLayer == (n - 1) % safe
        theta == idxInLayer * stepAngle
    IN  [n |-> n,
         x |-> (layerRadius * Cos(theta)) \div TrigScale,
         y |-> (layerRadius * Sin(theta)) \div TrigScale,
         z |-> layer * CoordScale]

coordsLayeredTime(len, blockSize, layerRadius, stepAngle) ==
    PushLoop([n \in Nat |-> LayeredPoint(n, Max(blockSize, 1), layerRadius, stepAngle)], 1, len)

\* The points memo (lines 305-313) for the mode m, the count len and the
\* parameters q.
GeneratePoints(m, len, q) ==
    CASE m = "helix" -> coordsHelix(len, q.stepAngle, q.radius, q.pitch)
      [] m = "spherical" -> coordsSphericalSpiral(len, q.stepAngle)
      [] m = "conical" -> coordsConicalArchimedean(len, q.stepAngle, q.a, q.b, q.c)
      [] m = "layered" -> coordsLayeredTime(len, q.blockSize, q.layerRadius, q.stepAngle)
      [] OTHER -> <<>>

\* The limits the sieve's specification draws N from.
Limits == (0 - 3)..MaxLimit

\* The controller the sieve's and the scene's specifications hold fixed.
FixedController ==
    /\ isAnimating = FALSE
    /\ animationSpeed = 10
    /\ resetKey = 0
    /\ isDragging = FALSE
    /\ lastPos = Origin
    /\ pointers = <<>>
    /\ pinch = NoPinch
    /\ raf = 1
    /\ frames = {[h |-> 1, isAnimating |-> FALSE, animationSpeed |-> 10]}
    /\ mounted = TRUE
    /\ nEvents = 0
    /\ pending = <<>>
    /\ deltaSum = Origin

SieveInit ==
    /\ N \in Limits
    /\ sieved = sievePrimes(N)
    /\ primes = ToSet(sieved)
    /\ mode = "helix"
    /\ params = DefaultParams
    /\ points = GeneratePoints(mode, N, params)
    /\ dotSize = 3
    /\ width = 800
    /\ height = 600
    /\ showAllNumbers = FALSE
    /\ perspective = TRUE
    /\ rotation = Origin
    /\ zoom = ZoomScale
    /\ FixedController

\* N is set (the slider, line 402): the primes memo (line 304) and the points
\* memo (line 305) are recomputed.
SetN(n) ==
    /\ n # N
    /\ N' = n
    /\ sieved' = sievePrimes(n)
    /\ primes' = ToSet(sieved')
    /\ points' = GeneratePoints(mode, n, params)
    /\ UNCHANGED <<camVars, appVars, gestVars, rafVars, nEvents, batchVars, genVars, dotSize,
                   width, height, showAllNumbers, perspective>>

\* The values the slider is moved to: below 2, the smallest limit with a
\* prime, the slider's first stop (line 402) and the largest limit.
SliderStops == {0 - 3, 1, 2, 100, MaxLimit}

SieveNext == \E n \in SliderStops : SetN(n)

SieveSpec == SieveInit /\ [][SieveNext]_vars

\* Trial division: n has no divisor d with 2 <= d <= floor(sqrt(n)).
NoSmallDivisor(n) == \A d \in 2..n : d * d <= n => n % d # 0

\* C1: for every integer limit, sievePrimes(limit) is exactly the integers n
\* with 2 <= n <= limit that have no divisor in 2..floor(sqrt(n)), each once and
\* in ascending order; it is empty for every limit below 2.
C1_SieveIsTrialDivision ==
    /\ \A k \in DOMAIN sieved : sieved[k] \in 2..N /\ NoSmallDivisor(sieved[k])
    /\ \A n \in 2..N : NoSmallDivisor(n) => \E k \in DOMAIN sieved : sieved[k] = n
    /\ \A j, k \in DOMAIN sieved : j < k => sieved[j] < sieved[k]
    /\ N < 2 => sieved = <<>>

\* C1's case: a limit with composites that more than one sieving prime clears.
C1_Witness == N >= 100 /\ Len(sieved) = 25

(***************************************************************************)
(* The generators' specification: the mode, the count and the parameters   *)
(* are drawn from bounded sets and set by the controls.                    *)
(***************************************************************************)
\* The counts the generators' specification draws N from.
Counts == 0..MaxN

\* The parameter values: two step angles, a block size below 1, one that makes
\* several layers and the initial one, two radii.
ParamInputs ==
    {<<"stepAngle", RotScale \div 10>>, <<"stepAngle", DefaultParams.stepAngle>>,
     <<"blockSize", 0>>, <<"blockSize", 2>>, <<"blockSize", DefaultParams.blockSize>>,
     <<"radius", DefaultParams.radius>>, <<"radius", 3 * CoordScale>>}

ParamSets ==
    {[DefaultParams EXCEPT !.stepAngle = s, !.blockSize = bs, !.radius = r] :
        s \in {RotScale \div 10, DefaultParams.stepAngle},
        bs \in {0, 2, DefaultParams.blockSize},
        r \in {DefaultParams.radius, 3 * CoordScale}}

GenInit ==
    /\ mode \in Modes
    /\ params \in ParamSets
    /\ N \in Counts
    /\ sieved = sievePrimes(N)
    /\ primes = ToSet(sieved)
    /\ points = GeneratePoints(mode, N, params)
    /\ dotSize = 3
    /\ width = 800
    /\ height = 600
    /\ showAllNumbers = FALSE
    /\ perspective = TRUE
    /\ rotation = Origin
    /\ zoom = ZoomScale
    /\ FixedController

\* A mode button (line 382): the points memo is recomputed.
SetMode(m) ==
    /\ m # mode
    /\ mode' = m
    /\ points' = GeneratePoints(m, N, params)
    /\ UNCHANGED <<camVars, appVars, gestVars, rafVars, nEvents, batchVars, params, sieveVars,
                   primes, dotSize, width, height, showAllNumbers, perspective>>

\* A parameter slider (lines 431-477): the points memo is recomputed.
SetParam(field, value) ==
    /\ params[field] # value
    /\ params' = [params EXCEPT ![field] = value]
    /\ points' = GeneratePoints(mode, N, params')
    /\ UNCHANGED <<camVars, appVars, gestVars, rafVars, nEvents, batchVars, mode, sieveVars,
                   primes, dotSize, width, height, showAllNumbers, perspective>>

GenNext ==
    \/ \E n \in Counts : SetN(n)
    \/ \E m \in Modes : SetMode(m)
    \/ \E fv \in ParamInputs : SetParam(fv[1], fv[2])

GenSpec == GenInit /\ [][GenNext]_vars

\* C11: for each of the four generators and every N >= 0, the output has
\* exactly N points whose indices are 1, 2, ..., N in that order, and it is
\* empty if and only if N = 0.
C11_DenseIndices ==
    /\ mode \in Modes
    /\ Len(points) = N
    /\ \A k \in 1..Len(points) : points[k].n = k
    /\ (points = <<>>) <=> (N = 0)

\* C11's case: the layered generator has made more than two layers of two.
C11_Witness ==
    /\ mode = "layered"
    /\ params.blockSize = 2
    /\ N >= 5
    /\ Len(points) = N
    /\ points[5].z = 2 * CoordScale

(***************************************************************************)
(* Claims about the interaction controller, under Spec.                    *)
(***************************************************************************)
\* A step is a pointermove of some pointer.
MoveStep == \E id \in PointerIds, pos \in Positions : onPointerMove(id, pos)

\* A step is a frame callback.
TickStep == \E f \in frames, elapsed \in Elapsed : tick(f, elapsed)

\* The position of the only active contact.
SolePos(m) == m[CHOOSE i \in DOMAIN m : TRUE]

\* C2: zoom stays within [0.1, 5] in every reachable state, whatever wheel
\* events, pinch moves (a start distance of 0 included), zoom buttons and
\* resets came before.
C2_ZoomInRange == ZoomMin <= zoom /\ zoom <= ZoomMax

\* C2's case: a pinch that started less than a pixel apart and from a zoom
\* inside the range has driven zoom to the upper limit.
C2_Witness ==
    /\ Size(pointers) = 2
    /\ pinch.set
    /\ pinch.startDist < DistScale
    /\ pinch.startZoom < ZoomMax
    /\ zoom = ZoomMax
    /\ zoom = PinchZoom(pinch, PairDist(pointers))

\* C3: whenever the number of active contacts changes, the drag reference and
\* the pinch baseline are cleared or re-established for the new contact set:
\* with one contact left the drag is off or lastPos is that contact's position,
\* with two the pinch baseline is absent or the one of the two contacts now.
C3_NoStaleBaseline ==
    [][Size(pointers') # Size(pointers) =>
        /\ Size(pointers') = 1 =>
              \/ ~isDragging'
              \/ lastPos' = SolePos(pointers')
        /\ Size(pointers') = 2 =>
              \/ ~pinch'.set
              \/ pinch' = PinchStart(pointers', zoom')]_vars

\* C4: a reset sets rotation to (0, 0) and zoom to 1 and clears the transient
\* gesture state: the contact map, the pinch baseline, the dragging flag and
\* the drag reference position.
C4_ResetClearsGesture ==
    [][resetKey' # resetKey =>
        /\ rotation' = Origin
        /\ zoom' = ZoomScale
        /\ pointers' = <<>>
        /\ pinch' = NoPinch
        /\ ~isDragging'
        /\ lastPos' = Origin]_vars

\* C5: once the animating flag is cleared no frame callback is scheduled, after
\* the teardown none remains pending, and at most one is pending at any time.
C5_ClockCancellable ==
    [][/\ (isAnimating /\ ~isAnimating') => frames' = {}
       /\ ~mounted' => frames' = {}
       /\ Cardinality(frames') <= 1]_vars

\* C6 (as the claim states it): with two or more contacts active, no pointer
\* move and no frame tick changes the rotation.
C6_RotationFrozenInPinch ==
    [][(Size(pointers) >= 2 /\ rotation' # rotation) => ~(MoveStep \/ TickStep)]_vars

\* C6 (amended): with two or more contacts active, no pointer move changes the
\* rotation; a frame tick of an animating clock still advances it.
C6_MoveKeepsRotationInPinch ==
    [][Size(pointers) >= 2 =>
          /\ rotation' # rotation => ~MoveStep
          /\ \A f \in frames, elapsed \in Elapsed :
                (f.isAnimating /\ tick(f, elapsed))
                   => rotation' = TickRotation(f, rotation, Dt(elapsed))]_vars

\* C6's case: a pinch in progress whose move has set the zoom, on a view that
\* an earlier drag had rotated.
C6_Witness ==
    /\ Size(pointers) = 2
    /\ pinch.set
    /\ zoom # pinch.startZoom
    /\ zoom = PinchZoom(pinch, PairDist(pointers))
    /\ rotation # Origin
    /\ ~isAnimating

\* The zoom the claim C7 gives for a pinch baseline p and a distance dist:
\* clamp(startZoom * dist / startDist, 0.1, 5), the quotient by a start
\* distance of 0 being +Infinity for a positive dividend (and any value for 0/0).
C7_ClaimedZoom(z, p, dist) ==
    IF p.startDist = 0
    THEN dist = 0 \/ z = ZoomMax
    ELSE z = ClampZoom((p.startZoom * dist) \div p.startDist)

\* The baseline is the zoom and the distance of the two contacts at the
\* pointerdown that brings the contact count to two, and is kept for as long
\* as two or more contacts stay.
C7_LandingBaseline ==
    /\ (Size(pointers) = 1 /\ Size(pointers') = 2)
          => pinch' = [set |-> TRUE, startDist |-> PairDist(pointers'), startZoom |-> zoom]
    /\ (Size(pointers) >= 2 /\ Size(pointers') >= 2) => pinch' = pinch

\* A step is a pointermove of an active contact.
ContactMoveStep == \E id \in DOMAIN pointers, pos \in Positions : onPointerMove(id, pos)

\* C7 (as the claim states it): with exactly two contacts, every move of either
\* sets zoom to clamp(startZoom * dist / startDist, 0.1, 5), for every start
\* distance, those below one pixel included.
C7_PinchZoomAnyStartDist ==
    [][/\ C7_LandingBaseline
       /\ (Size(pointers) = 2 /\ Size(pointers') = 2)
             => \/ pinch.set /\ C7_ClaimedZoom(zoom', pinch, PairDist(pointers'))
                \/ ~ContactMoveStep]_vars

\* C7 (amended): with exactly two contacts, every move of either sets zoom to
\* clamp(startZoom * dist / max(1, startDist), 0.1, 5), where startZoom and
\* startDist are the zoom and the distance of the two contacts recorded when a
\* pointerdown last brought the contact count to two.
C7_PinchZoomGuarded ==
    [][/\ C7_LandingBaseline
       /\ (Size(pointers) = 2 /\ Size(pointers') = 2)
             => \/ /\ pinch.set
                   /\ zoom' = ClampZoom((pinch.startZoom * PairDist(pointers'))
                                           \div Max(DistScale, pinch.startDist))
                \/ ~ContactMoveStep]_vars

\* C7's case: a pinch that started less than a pixel apart and whose move has
\* set a zoom strictly inside the range, different from the start zoom.
C7_Witness ==
    /\ Size(pointers) = 2
    /\ pinch.set
    /\ pinch.startDist < DistScale
    /\ pinch.startDist > 0
    /\ zoom = PinchZoom(pinch, PairDist(pointers))
    /\ zoom # pinch.startZoom
    /\ ZoomMin < zoom
    /\ zoom < ZoomMax

\* C8: while exactly one contact is active, every move of it adds dy * 0.01 to
\* rotation.x and dx * 0.01 to rotation.y, (dx, dy) being that pointer's
\* displacement since its previous move or its pointerdown, and leaves zoom.
C8_DragAddsOwnDisplacement ==
    [][\A id \in PointerIds, pos \in Positions :
          (DOMAIN pointers = {id} /\ onPointerMove(id, pos))
             => /\ rotation' = [x |-> rotation.x + (pos.y - pointers[id].y) * DragK,
                                y |-> rotation.y + (pos.x - pointers[id].x) * DragK]
                /\ zoom' = zoom]_vars

\* A step is a wheel event.
WheelStep == \E deltaY \in WheelDeltas, ctrlKey \in BOOLEAN : onWheel(deltaY, ctrlKey)

\* The zoom that a pointermove of the contact id to pos leaves when it finds the
\* zoom z, the contacts m and the pinch baseline p.
ZoomAfterMove(z, m, p, dragging, id, pos) ==
    LET moved == MapSet(m, id, pos)
    IN  IF Size(moved) = 1 /\ dragging THEN z
        ELSE IF Size(moved) = 2 /\ p.set THEN PinchZoom(p, PairDist(moved))
        ELSE z

\* ZoomAfterMove is the zoom onPointerMove leaves.
C12_MoveZoom ==
    \A id \in DOMAIN pointers, pos \in Positions :
        onPointerMove(id, pos)
            => zoom' = ZoomAfterMove(zoom, pointers, pinch, isDragging, id, pos)

\* C12: in every gesture state a wheel event sets zoom to
\* clamp(zoom - deltaY * k, 0.1, 5), k = 0.0025 with the modifier and 0.001
\* without, and leaves rotation and the gesture state; and its zoom change is
\* not discarded by a later move of the gesture in progress: the next move of an
\* active contact, even one that does not displace it, leaves the zoom the wheel
\* event set.
C12_WheelIndependent ==
    [][/\ C12_MoveZoom
       /\ \A deltaY \in WheelDeltas, ctrlKey \in BOOLEAN :
             onWheel(deltaY, ctrlKey) =>
                /\ zoom' = Max(ZoomScale \div 10,
                               Min(5 * ZoomScale,
                                   zoom - (deltaY * (IF ctrlKey THEN 25 ELSE 10) * ZoomScale)
                                             \div 10000))
                /\ rotation' = rotation
                /\ <<isDragging, lastPos, pointers, pinch>>' = <<isDragging, lastPos, pointers, pinch>>
       /\ (WheelStep /\ zoom' # zoom) =>
             \A id \in DOMAIN pointers' :
                ZoomAfterMove(zoom', pointers', pinch', isDragging', id, pointers'[id]) = zoom']_vars

\* C13: a frame tick while the animating flag is set adds 0.001 * speed * dt to
\* rotation.x and 0.0005 * speed * dt to rotation.y, dt being the time since the
\* previous tick capped at 32 ms, so that no tick advances rotation.x by more
\* than 0.032 * speed; a tick while the flag is not set leaves the rotation; no
\* tick changes the zoom.
C13_TickAdvance ==
    [][\A f \in frames, elapsed \in Elapsed :
          tick(f, elapsed) =>
             LET dt == IF elapsed > 32 THEN 32 ELSE elapsed
             IN  /\ isAnimating =>
                       /\ rotation'.x = rotation.x + (animationSpeed * dt * RotScale) \div 10000
                       /\ rotation'.y = rotation.y + (animationSpeed * dt * RotScale) \div 20000
                       /\ rotation'.x - rotation.x <= (32 * animationSpeed * RotScale) \div 10000
                 /\ ~isAnimating => rotation' = rotation
                 /\ zoom' = zoom]_vars

\* C13's case: at speed 3 a tick that came 50 ms after the previous one has
\* advanced the rotation by the capped amount, from a view at rest.
C13_Witness ==
    /\ isAnimating
    /\ animationSpeed = 30
    /\ rotation = [x |-> (30 * 32 * RotScale) \div 10000, y |-> (30 * 32 * RotScale) \div 20000]

\* C14: after a pointerup or pointercancel that leaves fewer than two active
\* contacts the pinch baseline is cleared, and after one that leaves none the
\* dragging flag is cleared; a pointermove of a pointer that is not an active
\* contact changes neither rotation nor zoom.
C14_ReleaseStepsDown ==
    [][/\ \A id \in PointerIds :
             onPointerUp(id) =>
                /\ pointers' = [i \in (DOMAIN pointers) \ {id} |-> pointers[i]]
                /\ Size(pointers') < 2 => ~pinch'.set
                /\ Size(pointers') = 0 => ~isDragging'
       /\ \A id \in PointerIds \ DOMAIN pointers, pos \in Positions :
             onPointerMove(id, pos) => rotation' = rotation /\ zoom' = zoom]_vars

\* C14's case: the first of two contacts was released during a pinch that had
\* changed the zoom: the second is left alone, without a pinch baseline.
C14_Witness ==
    /\ DOMAIN pointers = {2}
    /\ ~pinch.set
    /\ isDragging
    /\ zoom = ZoomMax
    /\ nEvents = 4

(***************************************************************************)
(* Batching.  React queues the updater a handler passes to setRotation and *)
(* applies the queue at the next render, each updater to the value the one *)
(* before it returned.  Between two renders here, several events are       *)
(* handled: drag moves, rotate buttons and frame ticks of a view that is   *)
(* being dragged while the animation runs.                                 *)
(***************************************************************************)
\* The value the updater u returns for the value prev.
UpdaterValue(prev, u) ==
    CASE u.kind = "drag" ->                 \* prev => ({x: prev.x + dy * 0.01, ...})
            [x |-> prev.x + u.dy * DragK, y |-> prev.y + u.dx * DragK]
      [] u.kind = "rotate" ->               \* r => ({...r, y: r.y + ROT_STEP}) etc.
            [x |-> prev.x + u.dx, y |-> prev.y + u.dy]
      [] u.kind = "tick" ->                 \* prev => ({x: prev.x + 0.001 * ...})
            TickRotation(u.f, prev, u.dt)

\* ApplyUpdater for an update that reads the rendered rotation instead of the
\* value handed to it.
ApplyToRendered(prev, u) == UpdaterValue(rotation, u)

\* React applies the queued updater u to the value prev.
ApplyUpdater(prev, u) == UpdaterValue(prev, u)

\* The queue q applied in order to the value prev.
RECURSIVE ApplyAll(_, _)
ApplyAll(prev, q) ==
    IF q = <<>> THEN prev ELSE ApplyAll(ApplyUpdater(prev, Head(q)), Tail(q))

\* setRotation(u)
Enqueue(u) ==
    /\ Len(pending) < MaxBatch
    /\ pending' = Append(pending, u)

\* The events' own deltas, summed.
AddDelta(dx, dy) == deltaSum' = [x |-> deltaSum.x + dx, y |-> deltaSum.y + dy]

\* onPointerMove of the dragging contact.
BatchMove(id, pos) ==
    /\ mounted
    /\ Handled
    /\ id \in DOMAIN pointers
    /\ LET m == MapSet(pointers, id, pos)
       IN  /\ DragBranch(m)
           /\ pointers' = m
           /\ lastPos' = pos
           /\ Enqueue([kind |-> "drag", dx |-> pos.x - lastPos.x, dy |-> pos.y - lastPos.y])
           /\ AddDelta((pos.y - lastPos.y) * DragK, (pos.x - lastPos.x) * DragK)
    /\ UNCHANGED <<camVars, isDragging, pinch, appVars, rafVars>>
    /\ UNCHANGED <<genVars, sieveVars, sceneVars>>

\* A rotate button.
BatchRotate(dx, dy) ==
    /\ mounted
    /\ Handled
    /\ Enqueue([kind |-> "rotate", dx |-> dx, dy |-> dy])
    /\ AddDelta(dx, dy)
    /\ UNCHANGED <<camVars, gestVars, appVars, rafVars>>
    /\ UNCHANGED <<genVars, sieveVars, sceneVars>>

\* The frame callback f of the running animation.
BatchTick(f, elapsed) ==
    /\ f \in frames
    /\ f.isAnimating
    /\ Handled
    /\ Enqueue([kind |-> "tick", f |-> f, dt |-> Dt(elapsed)])
    /\ AddDelta((f.animationSpeed * Dt(elapsed) * RotScale) \div 10000,
                (f.animationSpeed * Dt(elapsed) * RotScale) \div 20000)
    /\ LET h == FreshHandle(frames \ {f}, raf)
       IN  /\ frames' = TickFrames(f, h)
           /\ raf' = IF f.h = raf THEN h ELSE raf
    /\ UNCHANGED <<camVars, gestVars, appVars, mounted>>
    /\ UNCHANGED <<genVars, sieveVars, sceneVars>>

\* The render: the queued updaters are applied.
Render ==
    /\ pending # <<>>
    /\ rotation' = ApplyAll(rotation, pending)
    /\ pending' = <<>>
    /\ UNCHANGED <<zoom, gestVars, appVars, rafVars, nEvents, deltaSum>>
    /\ UNCHANGED <<genVars, sieveVars, sceneVars>>

\* A view at rest with one contact down (dragging) and the animation running.
BatchInit ==
    /\ rotation = Origin
    /\ zoom = ZoomScale
    /\ isAnimating = TRUE
    /\ animationSpeed \in Speeds
    /\ resetKey = 0
    /\ isDragging = TRUE
    /\ lastPos = [x |-> 0, y |-> 40]
    /\ pointers = [i \in {1} |-> lastPos]
    /\ pinch = NoPinch
    /\ raf = 1
    /\ frames = {[h |-> 1, isAnimating |-> TRUE, animationSpeed |-> animationSpeed]}
    /\ mounted = TRUE
    /\ nEvents = 0
    /\ pending = <<>>
    /\ deltaSum = Origin
    /\ FixedScene

BatchNext ==
    \/ \E id \in PointerIds, pos \in Positions : BatchMove(id, pos)
    \/ BatchRotate(0, 0 - ROT_STEP)
    \/ BatchRotate(0, ROT_STEP)
    \/ BatchRotate(0 - ROT_STEP, 0)
    \/ BatchRotate(ROT_STEP, 0)
    \/ \E f \in frames, elapsed \in Elapsed : BatchTick(f, elapsed)
    \/ Render

BatchSpec == BatchInit /\ [][BatchNext]_vars

\* C16: no rotation update is lost when drag moves, rotate buttons and frame
\* ticks of the running animation interleave: once the queued updates are
\* applied, the rotation is the initial rotation plus the sum of every event's
\* own delta, whatever the order of the events.
C16_NoLostRotationUpdate ==
    /\ ApplyAll(rotation, pending) = deltaSum
    /\ pending = <<>> => rotation = deltaSum

\* C16's case: a drag move, a rotate button and a frame tick are queued
\* together, on a rotation that an earlier render left.
C16_Witness ==
    /\ Len(pending) = 3
    /\ {pending[k].kind : k \in 1..3} = {"drag", "rotate", "tick"}
    /\ rotation # Origin
    /\ ApplyAll(rotation, pending) # rotation

(***************************************************************************)
(* The scene builder: project and projected of Canvas3D.                   *)
(* Point coordinates and depths are in units of 1/CoordScale, cosines and  *)
(* sines in units of 1/TrigScale, the perspective scale and the dot radius *)
(* in units of 1/PerspScale, screen coordinates in units of 1/CoordScale   *)
(* px.                                                                     *)
(***************************************************************************)
\* perspective ? 1 / (1 + z2 * 0.1) : 1
Persp(z2) ==
    IF perspective
    THEN (PerspScale * CoordScale) \div (CoordScale + z2 \div 10)
    ELSE PerspScale

\* Math.min(width, height) * 0.12 * zoom, in px per unit.
ViewScale == (Min(width, height) * 12 * zoom) \div (100 * ZoomScale)

project(pt) ==
    LET cx == width \div 2
        cy == height \div 2
        cosX == Cos(rotation.x)
        sinX == Sin(rotation.x)
        cosY == Cos(rotation.y)
        sinY == Sin(rotation.y)
        y1 == (pt.y * cosX - pt.z * sinX) \div TrigScale
        z1 == (pt.y * sinX + pt.z * cosX) \div TrigScale
        x2 == (pt.x * cosY + z1 * sinY) \div TrigScale
        z2 == ((0 - pt.x) * sinY + z1 * cosY) \div TrigScale
        persp == Persp(z2)
    IN  [x |-> cx * CoordScale + ((x2 * persp) \div PerspScale) * ViewScale,
         y |-> cy * CoordScale + ((y1 * persp) \div PerspScale) * ViewScale,
         z |-> z2,
         p |-> persp]

\* primes.has(p.n)
IsPrimePoint(p) == p.n \in primes

\* KeepPoint without its test of showAllNumbers.
KeepPrimesOnly(p) == IsPrimePoint(p)

\* The points the loop does not skip: if (!prime && !showAllNumbers) continue
KeepPoint(p) == IsPrimePoint(p) \/ showAllNumbers

\* The entry the loop pushes for the point p.
Entry(p) ==
    LET pr == project(p)
    IN  [x |-> pr.x, y |-> pr.y, z |-> pr.z, n |-> p.n,
         r |-> Max(PerspScale, dotSize * pr.p), prime |-> IsPrimePoint(p)]

\* arr before the sort.
pushed ==
    LET kept == SelectSeq(points, KeepPoint)
    IN  [k \in 1..Len(kept) |-> Entry(kept[k])]

\* The sorted sequence with e put after the entries that compare <= 0 to it.
RECURSIVE InsertByDepth(_, _)
InsertByDepth(sorted, e) ==
    IF sorted = <<>> THEN <<e>>
    ELSE IF Head(sorted).z - e.z <= 0
         THEN <<Head(sorted)>> \o InsertByDepth(Tail(sorted), e)
         ELSE <<e>> \o sorted

\* SortByDepth with the comparator's operands swapped: (a, b) => b.z - a.z.
RECURSIVE SortByDepthDescending(_)
SortByDepthDescending(arr) ==
    IF arr = <<>> THEN <<>>
    ELSE LET rest == SortByDepthDescending(SubSeq(arr, 1, Len(arr) - 1))
             e == arr[Len(arr)]
             before == SelectSeq(rest, LAMBDA a : a.z >= e.z)
             after == SelectSeq(rest, LAMBDA a : a.z < e.z)
         IN  before \o <<e>> \o after

\* arr.sort((a, b) => a.z - b.z), a stable sort.
RECURSIVE SortByDepth(_)
SortByDepth(arr) ==
    IF arr = <<>> THEN <<>>
    ELSE InsertByDepth(SortByDepth(SubSeq(arr, 1, Len(arr) - 1)), arr[Len(arr)])

\* The memo projected: its dependencies are all it reads, so it is the value
\* of the current props and state.
projected == SortByDepth(pushed)

(***************************************************************************)
(* The scene builder's specification: the inputs are drawn from bounded    *)
(* sets, the flags are toggled.                                            *)
(***************************************************************************)
\* The points the input lists are made of: two of the same depth at rest that
\* share an index, one in front of them, and the point the layered generator
\* makes for n = 3 at the largest layer radius (15, line 477), which the camera
\* rotations bring behind the viewer's plane.
PointPool ==
    {[n |-> 1, x |-> 1000, y |-> 0, z |-> 0],
     [n |-> 2, x |-> 0, y |-> 1000, z |-> 2000],
     [n |-> 2, x |-> 500, y |-> 500, z |-> 2000],
     LayeredPoint(3, DefaultParams.blockSize, 15 * CoordScale, DefaultParams.stepAngle)}

PointLists == UNION {[1..len -> PointPool] : len \in 0..MaxPoints}

PrimeSets == SUBSET {2, 3}

\* Camera rotations: at rest, the drag of (10, -20) px, and more than a quarter
\* turn on each axis.
SceneRotations ==
    {Origin,
     [x |-> 0 - 20 * DragK * PxScale, y |-> 10 * DragK * PxScale],
     [x |-> 2 * RotScale, y |-> 0 - 4 * RotScale]}

SceneInit ==
    /\ points \in PointLists
    /\ primes \in PrimeSets
    /\ rotation \in SceneRotations
    /\ zoom \in {ZoomScale, ZoomMax}
    /\ showAllNumbers \in BOOLEAN
    /\ perspective \in BOOLEAN
    /\ dotSize = 3
    /\ width = 800
    /\ height = 600
    /\ mode = "helix"
    /\ params = DefaultParams
    /\ N = 0
    /\ sieved = <<>>
    /\ FixedController

\* The "Show all numbers" button (line 531).
ToggleShowAllNumbers ==
    /\ showAllNumbers' = ~showAllNumbers
    /\ UNCHANGED <<camVars, appVars, gestVars, rafVars, nEvents, batchVars, genVars, sieveVars, points,
                   primes, dotSize, width, height, perspective>>

\* The projection button (line 538).
TogglePerspective ==
    /\ perspective' = ~perspective
    /\ UNCHANGED <<camVars, appVars, gestVars, rafVars, nEvents, batchVars, genVars, sieveVars, points,
                   primes, dotSize, width, height, showAllNumbers>>

SceneNext == ToggleShowAllNumbers \/ TogglePerspective

SceneSpec == SceneInit /\ [][SceneNext]_vars

\* C9: the projected list is sorted non-decreasing by depth, for every input
\* point list, prime set, camera state and flag setting.
C9_SortedByDepth ==
    LET arr == projected
    IN  \A k \in 1..(Len(arr) - 1) : arr[k].z <= arr[k + 1].z

\* C9's case: three entries that the loop pushed in another order than the
\* sorted one, under a rotated camera.
C9_Witness ==
    LET arr == projected
    IN  /\ Len(arr) = 3
        /\ pushed # arr
        /\ rotation # Origin
        /\ \E k \in 1..2 : arr[k].z < arr[k + 1].z

\* The number of elements of the sequence s that satisfy Test.
Count(s, Test(_)) == Cardinality({k \in DOMAIN s : Test(s[k])})

\* C10: with showAllNumbers off the projected list holds exactly one entry for
\* each input point whose index is in the prime set and no other entry; with it
\* on, exactly one entry for each input point, and every entry's prime flag is
\* the membership of its index in the prime set.
C10_FilterByPrime ==
    LET arr == projected
        depth == [p \in PointPool |-> project(p).z]
    IN  /\ \A p \in PointPool :
              LET SameAsP(q) == q.n = p.n /\ depth[q] = depth[p]
                  EntryOfP(e) == e.n = p.n /\ e.z = depth[p]
              IN  Count(arr, EntryOfP) =
                     IF showAllNumbers \/ p.n \in primes THEN Count(points, SameAsP) ELSE 0
        /\ Len(arr) = Count(points, LAMBDA q : showAllNumbers \/ q.n \in primes)
        /\ \A k \in DOMAIN arr : arr[k].prime = (arr[k].n \in primes)

\* C10's case: with showAllNumbers off, three input points of which one is
\* not in the prime set and two are.
C10_Witness ==
    /\ ~showAllNumbers
    /\ Len(points) = 3
    /\ Len(projected) = 2

\* C15: zoom and every scale factor derived for the projection, the
\* perspective scale 1 / (1 + depth * 0.1) and the dot radius factor built from
\* it (the radius over dotSize), lie within [0.1, 5] for every point projected.
C15_ScaleFactorsInRange ==
    /\ ZoomScale \div 10 <= zoom
    /\ zoom <= 5 * ZoomScale
    /\ \A k \in DOMAIN points :
          KeepPoint(points[k]) =>
             LET persp == project(points[k]).p
                 r == Entry(points[k]).r
             IN  /\ PerspScale \div 10 <= persp
                 /\ persp <= 5 * PerspScale
                 /\ dotSize * (PerspScale \div 10) <= r
                 /\ r <= dotSize * 5 * PerspScale

====
